---- MODULE Spec2Model ----
(***************************************************************************)
(* gcomb: generators and generator combinators.                            *)
(*                                                                         *)
(* A generator<T> stores a production (a std::function<T(void)>) and is    *)
(* pulled through one of its two call operators.  The combinators capture  *)
(* their input generators by value and pull them from inside their own     *)
(* production.  The model keeps, for every generator, the state captured   *)
(* by its closure, and records in `last` what the most recent pull did:    *)
(* which inputs it pulled, what they produced and what it returned.        *)
(*                                                                         *)
(* Pulls issued by the program itself (the actions below) go through       *)
(* generator::operator()(K&&) with a continuation that returns by value;   *)
(* the pulls the combinators issue are the ones written in their source.   *)
(*                                                                         *)
(* Template instantiation is taken as the source evidently means it: a     *)
(* value of member type Ti placed in algebraic<T1..Tn> gets the index of   *)
(* the first Ti in the list.                                               *)
(***************************************************************************)
EXTENDS Integers, Sequences, FiniteSets, TLC

VARIABLES ts, sq, bd, ti, bm, nb, cell, last, bra, pg, pt, al, bx, heap

vars == <<ts, sq, bd, ti, bm, nb, cell, last, bra, pg, pt, al, bx, heap>>

(* ------------------------------ bounds -------------------------------- *)

\* pulls made on one generator
MaxPulls == 5
\* largest value an indeterminate read is drawn from
MaxVal == 3
\* largest count given to bound
MaxN == 3
\* seq generators alive at once
NumSeq == 2
\* call sites of seq (each branch lambda expression has its own closure type)
NumSites == 2

(* ------------------------------ values -------------------------------- *)

Types == {"int", "double"}

\* the values an int or double object can be found to hold
Word == -1..MaxVal

\* bot_t carries no data; its value is written 0
Unit == 0

NoGen == [kind |-> "none"]

NoPull == [op |-> "none"]

\* no braid and no primitive generator is under observation
NoPrims ==
    /\ bra = NoGen
    /\ pg = <<>>
    /\ pt = <<>>

\* no algebraic object and no recursive box exists
NoObjects ==
    /\ al = <<>>
    /\ bx = <<>>
    /\ heap = <<>>

(* ------------------------- primitive generators ----------------------- *)

\* count(start, step): the closure captures start and step
count(start, step) ==
    [k |-> "count", ty |-> "int", cur |-> start, step |-> step]

\* pure(t): the closure captures t
pure(v, ty) ==
    [k |-> "pure", ty |-> ty, cur |-> v, step |-> 0]

\* a generator built by the caller from a production that reads and
\* advances a cell shared with other productions
shared ==
    [k |-> "cell", ty |-> "int", cur |-> 0, step |-> 0]

\* prod(start, factor): the closure captures start and factor; the field
\* step holds factor
prod(start, factor) ==
    [k |-> "prod", ty |-> "int", cur |-> start, step |-> factor]

\* a prod whose production has `start += factor`
gen_next_additive(g) ==
    IF g.k \in {"count", "prod"} THEN [g EXCEPT !.cur = @ + g.step] ELSE g

\* gen(): the closure after the production has run
gen_next(g) ==
    IF g.k = "count" THEN [g EXCEPT !.cur = @ + g.step]
    ELSE IF g.k = "prod" THEN [g EXCEPT !.cur = @ * g.step]
    ELSE g

\* a production that advances before it takes the result
gen_val_advanced(g, c) == IF g.k = "cell" THEN c ELSE gen_next(g).cur

\* gen(): the value the stored production returns
gen_val(g, c) == IF g.k = "cell" THEN c ELSE g.cur

\* gen(): the shared cell after the production has run
gen_cell(g, c) == IF g.k = "cell" THEN c + 1 ELSE c

(***************************************************************************)
(* generator::operator()(void) returns this->operator()(std::move<T>),     *)
(* that is a T&& bound to the temporary gen() made inside the callee.  The *)
(* temporary dies before the callee returns, so what the caller reads      *)
(* through the reference is indeterminate: the produced value v, or        *)
(* whatever the storage holds by then.                                     *)
(***************************************************************************)
CallVoid(v) == {v} \cup Word

\* the functions handed to bind
Fs == {"square", "succ"}

Apply(f, x) ==
    IF f = "square" THEN x * x ELSE IF f = "succ" THEN x + 1 ELSE x

\* a bind that pulls with `f (g ())` in place of `g (f)`
CallK_ThroughVoid(f, v) == {Apply(f, w) : w \in CallVoid(v)}

\* generator::operator()(K&&) with a continuation returning by value:
\* k is applied to gen() while the temporary is alive
CallK(f, v) == {Apply(f, v)}

(* ------------------------------ algebraic ----------------------------- *)

RECURSIVE type_to_index(_, _)
\* detail::type_to_index<U, Ts...>: zero-based position of the first U
type_to_index(U, Ts) ==
    IF Ts = <<>> THEN -1
    ELSE IF Head(Ts) = U THEN 0
    ELSE LET r == type_to_index(U, Tail(Ts)) IN IF r < 0 THEN r ELSE 1 + r

\* a constructor that leaves the discriminant at the first member
algebraic_first(Ts, U, v) == [alt |-> 0, val |-> v]

\* algebraic<Ts...>::algebraic(U&& u): discriminant and stored value
algebraic(Ts, U, v) == [alt |-> type_to_index(U, Ts), val |-> v]

(* --------------------------------- seq -------------------------------- *)

SeqIds == 1..NumSeq

Sites == 1..NumSites

\* seq(t, u, branch): the closure captures t, u and branch; n, tripped and
\* fresh are history (pulls made, whether a pull of this generator has
\* evaluated branch to true, whether it came from seq() and not from a copy)
seq(t, u, site, thr) ==
    [kind |-> "seq", t |-> t, u |-> u, site |-> site, thr |-> thr,
     n |-> 0, tripped |-> FALSE, fresh |-> TRUE]

\* the branch predicates handed to seq: x => x >= thr
branch(x, thr) == x >= thr

\* `static bool ts` belongs to the closure type of the lambda in seq, of
\* which there is one per instantiation seq<T, U, Branch>
SeqInst(s) == <<s.t.ty, s.u.ty, s.site>>

SeqInsts == Types \X Types \X Sites

\* the pull returns the T-alternative: `return val`
seq_ret_t(s, latch, tv, val) ==
    [s |-> [s EXCEPT !.t = gen_next(s.t), !.n = @ + 1],
     latch |-> latch,
     ret |-> algebraic(<<s.t.ty, s.u.ty>>, s.t.ty, val),
     tp |-> 1, up |-> 0, tv |-> tv, uv |-> 0, br |-> "false"]

\* the pull returns the U-alternative: `return u ()`, after t was pulled
\* tp times and branch came out as br
seq_ret_u(s, tp, tv, br, ret) ==
    [s |-> [s EXCEPT !.t = IF tp = 1 THEN gen_next(s.t) ELSE @,
                     !.u = gen_next(s.u), !.n = @ + 1,
                     !.tripped = @ \/ br = "true"],
     latch |-> FALSE,
     ret |-> algebraic(<<s.t.ty, s.u.ty>>, s.u.ty, ret),
     tp |-> tp, up |-> 1, tv |-> tv, uv |-> gen_val(s.u, 0), br |-> br]

\* the production of seq: every outcome of one pull, given the latch
seq_pull(s, latch) ==
    LET tv == gen_val(s.t, 0)
        uv == gen_val(s.u, 0)
    IN  IF latch
        THEN {seq_ret_t(s, latch, tv, val) :
                 val \in {v \in CallVoid(tv) : ~branch(v, s.thr)}}
             \cup
             {seq_ret_u(s, 1, tv, "true", r) :
                 r \in {x \in CallVoid(uv) :
                           \E v \in CallVoid(tv) : branch(v, s.thr)}}
        ELSE {seq_ret_u(s, 0, 0, "none", r) : r \in CallVoid(uv)}

\* the generators the program hands to seq as u
SeqU == {pure(-1, "int"), pure(-1, "double"), count(0, 1)}

\* g = seq(count(0,1), u, x => x >= thr), written at call site `site`
SeqBuild(i, u, site, thr) ==
    /\ sq[i] = NoGen
    /\ sq' = [sq EXCEPT ![i] = seq(count(0, 1), u, site, thr)]
    /\ UNCHANGED <<bra, pg, pt, al, bx, heap, ts, bd, ti, bm, nb, cell, last>>

\* generator(generator const&): the copy holds a copy of the closure
SeqCopy(i, j) ==
    /\ sq[i] # NoGen
    /\ sq[j] = NoGen
    /\ sq' = [sq EXCEPT ![j] = [sq[i] EXCEPT !.n = 0, !.tripped = FALSE,
                                             !.fresh = FALSE]]
    /\ UNCHANGED <<bra, pg, pt, al, bx, heap, ts, bd, ti, bm, nb, cell, last>>

\* one pull of the seq generator i
SeqPull(i) ==
    /\ sq[i] # NoGen
    /\ sq[i].n < MaxPulls
    /\ \E o \in seq_pull(sq[i], ts[SeqInst(sq[i])]) :
          /\ sq' = [sq EXCEPT ![i] = o.s]
          /\ ts' = [ts EXCEPT ![SeqInst(sq[i])] = o.latch]
          /\ last' = [op |-> "seq", id |-> i, k |-> sq[i].n + 1,
                      ret |-> o.ret, tp |-> o.tp, up |-> o.up,
                      tv |-> o.tv, uv |-> o.uv, br |-> o.br,
                      was |-> sq[i].tripped, fresh |-> sq[i].fresh,
                      gen |-> sq[i]]
    /\ UNCHANGED <<bra, pg, pt, al, bx, heap, bd, ti, bm, nb, cell>>

InitSeq ==
    /\ ts = [x \in SeqInsts |-> TRUE]
    /\ sq = [i \in SeqIds |-> NoGen]
    /\ bd = NoGen
    /\ ti = NoGen
    /\ bm = NoGen
    /\ nb = NoGen
    /\ cell = 0
    /\ last = NoPull
    /\ NoPrims
    /\ NoObjects

NextSeq ==
    \/ \E i \in SeqIds, u \in SeqU, site \in Sites, thr \in 1..2 :
          SeqBuild(i, u, site, thr)
    \/ \E i \in SeqIds, j \in SeqIds : SeqCopy(i, j)
    \/ \E i \in SeqIds : SeqPull(i)

SpecSeq == InitSeq /\ [][NextSeq]_vars

(* -------------------------------- bound ------------------------------- *)

\* bound(g, n): the closure captures g and n; n0, g0, k and gpulls are
\* history (the arguments of bound, pulls made, pulls made on g)
bound(g, n) ==
    [kind |-> "bound", g |-> g, n |-> n,
     n0 |-> n, g0 |-> g, k |-> 0, gpulls |-> 0]

\* a bound that tests `n >= 0`, which an unsigned count always passes
bound_active_always(n) == n >= 0

\* the condition of `n ? ... : ...`
bound_active(n) == n # 0

\* the production of bound: every outcome of one pull
bound_pull(b, c) ==
    IF bound_active(b.n)
    THEN {[b |-> [b EXCEPT !.n = @ - 1, !.g = gen_next(b.g),
                           !.k = @ + 1, !.gpulls = @ + 1],
           cell |-> gen_cell(b.g, c),
           ret |-> algebraic(<<b.g.ty, "bot_t">>, b.g.ty, v),
           gp |-> 1, gv |-> gen_val(b.g, c)] :
             v \in CallVoid(gen_val(b.g, c))}
    ELSE {[b |-> [b EXCEPT !.k = @ + 1],
           cell |-> c,
           ret |-> algebraic(<<b.g.ty, "bot_t">>, "bot_t", Unit),
           gp |-> 0, gv |-> 0]}

\* the generators the program hands to bound
BoundG == {count(0, 1), count(1, 2), shared}

\* one pull of the bound generator
BoundPull ==
    /\ bd # NoGen
    /\ bd.k < MaxPulls
    /\ \E o \in bound_pull(bd, cell) :
          /\ bd' = o.b
          /\ cell' = o.cell
          /\ last' = [op |-> "bound", k |-> bd.k + 1, ret |-> o.ret,
                      gp |-> o.gp, gv |-> o.gv,
                      rem |-> bd.n, rem2 |-> o.b.n,
                      n0 |-> bd.n0, g0 |-> bd.g0]
    /\ UNCHANGED <<bra, pg, pt, al, bx, heap, ts, sq, ti, bm, nb>>

\* another production advances the cell it shares with g
CellStep ==
    /\ cell < MaxVal
    /\ cell' = cell + 1
    /\ UNCHANGED <<bra, pg, pt, al, bx, heap, ts, sq, bd, ti, bm, nb, last>>

InitBound ==
    /\ ts = [x \in SeqInsts |-> TRUE]
    /\ sq = [i \in SeqIds |-> NoGen]
    /\ bd \in {bound(g, n) : g \in BoundG, n \in 0..MaxN}
    /\ ti = NoGen
    /\ bm = NoGen
    /\ nb = NoGen
    /\ cell = 0
    /\ last = NoPull
    /\ NoPrims
    /\ NoObjects

NextBound ==
    \/ BoundPull
    \/ CellStep

SpecBound == InitBound /\ [][NextBound]_vars

(* --------------------------------- tie -------------------------------- *)

\* inputs of one tie
TieArity == 2

\* tie(g, gs...): the closure captures the inputs; k is history
tie(gs) == [kind |-> "tie", gs |-> gs, k |-> 0]

\* the orders in which the operands of one call can be evaluated: the
\* operands of std::make_tuple (g(), gs()...) are indeterminately sequenced
EvalOrders(n) ==
    {o \in [1..n -> 1..n] : \A i, j \in 1..n : o[i] = o[j] => i = j}

RECURSIVE tie_run(_, _, _)
\* the productions of the inputs, run one after the other in order o:
\* the inputs and the cell afterwards, what each produced, how often each ran
tie_run(st, o, i) ==
    IF i > Len(o) THEN st
    ELSE LET j == o[i]
             g == st.gs[j]
         IN  tie_run([gs |-> [st.gs EXCEPT ![j] = gen_next(g)],
                      cell |-> gen_cell(g, st.cell),
                      pv |-> [st.pv EXCEPT ![j] = gen_val(g, st.cell)],
                      pc |-> [st.pc EXCEPT ![j] = @ + 1]], o, i + 1)

\* the tuples std::make_tuple can be handed: component i is read through
\* the reference that pulling input i returned
tie_reads(pv) ==
    {r \in [1..Len(pv) -> Word \cup {pv[i] : i \in 1..Len(pv)}] :
        \A i \in 1..Len(pv) : r[i] \in CallVoid(pv[i])}

\* the state in which the productions of one pull start
tie_start(t, c) ==
    [gs |-> t.gs, cell |-> c,
     pv |-> [i \in 1..Len(t.gs) |-> 0], pc |-> [i \in 1..Len(t.gs) |-> 0]]

\* the production of tie: every outcome of one pull
tie_pull(t, c) ==
    UNION {{[t |-> [t EXCEPT !.gs = tie_run(tie_start(t, c), o, 1).gs,
                             !.k = @ + 1],
             run |-> tie_run(tie_start(t, c), o, 1),
             order |-> o,
             ret |-> r] :
               r \in tie_reads(tie_run(tie_start(t, c), o, 1).pv)} :
           o \in EvalOrders(Len(t.gs))}

\* the generators the program hands to tie
TieG == {count(0, 1), pure(1, "int"), pure(2, "double"), shared}

\* one pull of the tie generator
TiePull ==
    /\ ti # NoGen
    /\ ti.k < MaxPulls
    /\ \E o \in tie_pull(ti, cell) :
          /\ ti' = o.t
          /\ cell' = o.run.cell
          /\ last' = [op |-> "tie", k |-> ti.k + 1, ret |-> o.ret,
                      order |-> o.order, pv |-> o.run.pv, pc |-> o.run.pc,
                      gs |-> ti.gs]
    /\ UNCHANGED <<bra, pg, pt, al, bx, heap, ts, sq, bd, bm, nb>>

InitTie ==
    /\ ts = [x \in SeqInsts |-> TRUE]
    /\ sq = [i \in SeqIds |-> NoGen]
    /\ bd = NoGen
    /\ ti \in {tie(gs) : gs \in [1..TieArity -> TieG]}
    /\ bm = NoGen
    /\ nb = NoGen
    /\ cell = 0
    /\ last = NoPull
    /\ NoPrims
    /\ NoObjects

NextTie == TiePull

SpecTie == InitTie /\ [][NextTie]_vars

(* --------------------------------- bind ------------------------------- *)

\* what a call that names no viable function leaves behind
IllFormed == [kind |-> "ill_formed"]

\* bind(f, g), f callable on g's value: the closure captures f and g;
\* g0 and k are history
bind(f, g) == [kind |-> "bind", f |-> f, g |-> g, g0 |-> g, k |-> 0]

\* bind(f, g), g a generator of tuples: the closure captures g and
\* call = tup -> detail::call (f, tup)
bind_tuple(f, g) == [kind |-> "bind_tuple", f |-> f, g |-> g, k |-> 0]

\* parameters of braid: t, u and branch
BraidParams == 3

\* braid(t, u, branch): the only braid there is takes two generators and a
\* callable that merges their values
braid(args) ==
    IF Len(args) = BraidParams /\ args[BraidParams].k = "merge"
    THEN [kind |-> "braid", t |-> args[1], u |-> args[2],
          branch |-> args[BraidParams], k |-> 0]
    ELSE IllFormed

\* overload resolution of bind(f, g) on what g yields
bind_resolve(f, g) ==
    IF g.kind = "ill_formed" THEN IllFormed
    ELSE IF g.kind = "tie" THEN bind_tuple(f, g)
    ELSE bind(f, g)

\* bind(f, g, gs...): `return bind (f, braid (g, gs...))`
bind_nary(f, gs) == bind_resolve(f, braid(gs))

\* the production of bind: `return g (f)`, every outcome of one pull
bind_pull(b, c) ==
    {[b |-> [b EXCEPT !.g = gen_next(b.g), !.k = @ + 1],
      cell |-> gen_cell(b.g, c),
      ret |-> r, gp |-> 1, gv |-> gen_val(b.g, c)] :
        r \in CallK(b.f, gen_val(b.g, c))}

\* the generators the program hands to bind
BindG == {count(0, 1), count(1, 2), shared}

\* one pull of the bind generator
BindPull ==
    /\ bm # NoGen
    /\ bm.k < MaxPulls
    /\ \E o \in bind_pull(bm, cell) :
          /\ bm' = o.b
          /\ cell' = o.cell
          /\ last' = [op |-> "bind", k |-> bm.k + 1, ret |-> o.ret,
                      gp |-> o.gp, gv |-> o.gv, f |-> bm.f, g0 |-> bm.g0]
    /\ UNCHANGED <<bra, pg, pt, al, bx, heap, ts, sq, bd, ti, nb>>

\* m = bind(f, g1, ..., gn) with n >= 2 generators
BindNaryBuild(f, gs) ==
    /\ nb = NoGen
    /\ nb' = [f |-> f, gs |-> gs, obj |-> bind_nary(f, gs)]
    /\ UNCHANGED <<bra, pg, pt, al, bx, heap, ts, sq, bd, ti, bm, cell, last>>

InitBind ==
    /\ ts = [x \in SeqInsts |-> TRUE]
    /\ sq = [i \in SeqIds |-> NoGen]
    /\ bd = NoGen
    /\ ti = NoGen
    /\ bm \in {bind(f, g) : f \in Fs, g \in BindG}
    /\ nb = NoGen
    /\ cell = 0
    /\ last = NoPull
    /\ NoPrims
    /\ NoObjects

NextBind ==
    \/ BindPull
    \/ \E gs \in UNION {[1..n -> BindG] : n \in 2..BraidParams} :
          BindNaryBuild("sum", gs)

SpecBind == InitBind /\ [][NextBind]_vars

(* ---------------------------- bind on tuples -------------------------- *)

\* the functions of several arguments handed to bind
F2s == {"sub", "first"}

Apply2(f, args) == IF f = "sub" THEN args[1] - args[2] ELSE args[1]

\* an index sequence that counts down
seq_gen_descending(N) == [i \in 1..N |-> N + 1 - i]

\* detail::seq_gen<N>::type: the indices of a tuple of N components,
\* ascending
seq_gen(N) == [i \in 1..N |-> i]

\* detail::call_impl: f (std::get<S> (args)...)
call_impl(f, args, S) == Apply2(f, [i \in 1..Len(S) |-> args[S[i]]])

\* detail::call: f on the components of the tuple args
call(f, args) == call_impl(f, args, seq_gen(Len(args)))

\* the production of the tuple bind: `return g (call)`, every outcome of
\* one pull; g is a tie, its production hands call the tuple by value
bind_tuple_pull(b, c) ==
    {[b |-> [b EXCEPT !.g = o.t, !.k = @ + 1],
      cell |-> o.run.cell,
      gp |-> o.t.k - b.g.k,
      tup |-> o.ret,
      ret |-> call(b.f, o.ret)] : o \in tie_pull(b.g, c)}

\* one pull of the tuple bind
BindTuplePull ==
    /\ bm # NoGen
    /\ bm.k < MaxPulls
    /\ \E o \in bind_tuple_pull(bm, cell) :
          /\ bm' = o.b
          /\ cell' = o.cell
          /\ last' = [op |-> "bind_tuple", k |-> bm.k + 1, ret |-> o.ret,
                      gp |-> o.gp, tup |-> o.tup, f |-> bm.f]
    /\ UNCHANGED <<bra, pg, pt, al, bx, heap, ts, sq, bd, ti, nb>>

InitBindTuple ==
    /\ ts = [x \in SeqInsts |-> TRUE]
    /\ sq = [i \in SeqIds |-> NoGen]
    /\ bd = NoGen
    /\ ti = NoGen
    /\ bm \in {bind_resolve(f, tie(gs)) :
                  f \in F2s, gs \in [1..TieArity -> TieG]}
    /\ nb = NoGen
    /\ cell = 0
    /\ last = NoPull
    /\ NoPrims
    /\ NoObjects

NextBindTuple == BindTuplePull

SpecBindTuple == InitBindTuple /\ [][NextBindTuple]_vars

(* -------------------------------- braid ------------------------------- *)

\* the callables handed to braid as branch
Merges == {"sum", "right"}

\* branch (x, y): an A = algebraic<T, U> made from the two values
merge(m, b, x, y) ==
    IF m.f = "sum" THEN algebraic(<<b.t.ty, b.u.ty>>, b.t.ty, x + y)
    ELSE algebraic(<<b.t.ty, b.u.ty>>, b.u.ty, y)

\* the production of braid: `return branch (t(), u())`, every outcome of
\* one pull; the two operands are indeterminately sequenced and each is
\* read through the reference the pull returned
braid_pull(b, c) ==
    UNION {{[b |-> [b EXCEPT
                       !.t = tie_run(tie_start([gs |-> <<b.t, b.u>>], c),
                                     o, 1).gs[1],
                       !.u = tie_run(tie_start([gs |-> <<b.t, b.u>>], c),
                                     o, 1).gs[2],
                       !.k = @ + 1],
             run |-> tie_run(tie_start([gs |-> <<b.t, b.u>>], c), o, 1),
             ret |-> merge(b.branch, b, r[1], r[2])] :
               r \in tie_reads(
                       tie_run(tie_start([gs |-> <<b.t, b.u>>], c),
                               o, 1).pv)} :
           o \in EvalOrders(2)}

\* one pull of the braid generator
BraidPull ==
    /\ bra # NoGen
    /\ bra.k < MaxPulls
    /\ \E o \in braid_pull(bra, cell) :
          /\ bra' = o.b
          /\ cell' = o.run.cell
          /\ last' = [op |-> "braid", k |-> bra.k + 1, ret |-> o.ret,
                      pv |-> o.run.pv, pc |-> o.run.pc, gen |-> bra]
    /\ UNCHANGED <<pg, pt, al, bx, heap, ts, sq, bd, ti, bm, nb>>

InitBraid ==
    /\ ts = [x \in SeqInsts |-> TRUE]
    /\ sq = [i \in SeqIds |-> NoGen]
    /\ bd = NoGen
    /\ ti = NoGen
    /\ bm = NoGen
    /\ nb = NoGen
    /\ cell = 0
    /\ last = NoPull
    /\ bra \in {braid(<<t, u, [k |-> "merge", f |-> m]>>) :
                   t \in TieG, u \in TieG, m \in Merges}
    /\ pg = <<>>
    /\ pt = <<>>
    /\ NoObjects

NextBraid == BraidPull

SpecBraid == InitBraid /\ [][NextBraid]_vars

(* --------------------------- count and prod --------------------------- *)

\* the counters and products the program builds
PrimG ==
    {[kind |-> "count", start |-> s, step |-> d, g |-> count(s, d), k |-> 0] :
        s \in 0..MaxVal, d \in 0..MaxVal}
    \cup
    {[kind |-> "prod", start |-> s, step |-> d, g |-> prod(s, d), k |-> 0] :
        s \in 0..MaxVal, d \in 0..MaxVal}

\* one pull of the generator by the program: the production runs once and
\* the continuation is handed its result by value
PrimPull ==
    /\ pg # <<>>
    /\ pg.k < MaxPulls
    /\ \E r \in CallK("id", gen_val(pg.g, cell)) :
          last' = [op |-> "prim", k |-> pg.k, ret |-> r, gen |-> pg]
    /\ pg' = [pg EXCEPT !.g = gen_next(pg.g), !.k = @ + 1]
    /\ UNCHANGED <<bra, pt, al, bx, heap, ts, sq, bd, ti, bm, nb, cell>>

InitPrim ==
    /\ ts = [x \in SeqInsts |-> TRUE]
    /\ sq = [i \in SeqIds |-> NoGen]
    /\ bd = NoGen
    /\ ti = NoGen
    /\ bm = NoGen
    /\ nb = NoGen
    /\ cell = 0
    /\ last = NoPull
    /\ bra = NoGen
    /\ pg \in PrimG
    /\ pt = <<>>
    /\ NoObjects

NextPrim == PrimPull

SpecPrim == InitPrim /\ [][NextPrim]_vars

(* ------------------------- pure of several values --------------------- *)

\* pure generators of several values the program holds
NumPure == 2

\* values handed to one pure
PureArity == 2

PureIds == 1..NumPure

\* the values handed to pure
PureVals == {0, MaxVal}

\* the instantiations pure<T, Ts...> in the program, each with one closure
\* type and so one function-local `static auto const tup`
PureInsts == [1..PureArity -> Types]

\* pure(t, ts...): the closure captures the values; tys names the
\* instantiation
pure_tuple(tys, vals) == [kind |-> "pure_tuple", tys |-> tys, vals |-> vals]

\* `static auto const tup = std::make_tuple (t, ts...)`: initialised when
\* control first passes through the declaration, left alone ever after
static_tup(tup, p) == IF tup = <<>> THEN p.vals ELSE tup

\* p = pure(t, ts...)
PureBuild(i, tys, vals) ==
    /\ pt.gens[i] = NoGen
    /\ pt' = [pt EXCEPT !.gens[i] = pure_tuple(tys, vals)]
    /\ UNCHANGED <<bra, pg, al, bx, heap, ts, sq, bd, ti, bm, nb, cell, last>>

\* one pull of p by the program: the production initialises tup if no
\* closure of this type has run yet, and returns tup
PurePull(i) ==
    /\ pt.gens[i] # NoGen
    /\ pt.n < MaxPulls
    /\ LET p == pt.gens[i]
           tup == static_tup(pt.tup[p.tys], p)
       IN  /\ pt' = [pt EXCEPT !.tup[p.tys] = tup, !.n = @ + 1]
           /\ \E r \in CallK("id", tup) :
                 last' = [op |-> "pure", id |-> i, ret |-> r, gen |-> p]
    /\ UNCHANGED <<bra, pg, al, bx, heap, ts, sq, bd, ti, bm, nb, cell>>

InitPure ==
    /\ ts = [x \in SeqInsts |-> TRUE]
    /\ sq = [i \in SeqIds |-> NoGen]
    /\ bd = NoGen
    /\ ti = NoGen
    /\ bm = NoGen
    /\ nb = NoGen
    /\ cell = 0
    /\ last = NoPull
    /\ bra = NoGen
    /\ pg = <<>>
    /\ pt = [gens |-> [i \in PureIds |-> NoGen],
             tup |-> [x \in PureInsts |-> <<>>],
             n |-> 0]
    /\ NoObjects

NextPure ==
    \/ \E i \in PureIds, tys \in PureInsts, vals \in [1..PureArity -> PureVals] :
          PureBuild(i, tys, vals)
    \/ \E i \in PureIds : PurePull(i)

SpecPure == InitPure /\ [][NextPure]_vars

(* --------------------------- algebraic objects ------------------------ *)

\* algebraic objects the program holds
NumAlg == 2

AlgIds == 1..NumAlg

\* pointees the allocator hands out
MaxHeap == 3

\* the type W of the values kept behind a recursive<W> member
Pointee == "node"

\* the member types: the plain ones and recursive<W>
AlgTypes == Types \cup {"recursive"}

\* the member lists <T, Ts...> the program instantiates algebraic with,
\* pairwise distinct
AlgLists == {l \in [1..2 -> AlgTypes] : l[1] # l[2]}

\* the values the program stores
AlgVals == {0, MaxVal}

\* the types U a value handed to algebraic<Ts...> can have: a member, or
\* W where recursive<W> is a member
AlgArgs(Ts) ==
    ({Ts[n] : n \in 1..Len(Ts)} \ {"recursive"})
        \cup (IF \E n \in 1..Len(Ts) : Ts[n] = "recursive"
              THEN {Pointee} ELSE {})

\* recursive<W>::recursive (W&&): `data (alloc.allocate (1))` and a W
\* built in place; the new box points at the new pointee
recursive(v, h) ==
    [ptr |-> Len(h) + 1, heap |-> Append(h, [val |-> v, frees |-> 0])]

\* what the storage holds after `new (address) U (u)`, or after
\* `new (address) recursive<W> (u)` for a W
alg_store(U, v, h) ==
    IF U = Pointee
    THEN [ty |-> "recursive", val |-> recursive(v, h).ptr,
          heap |-> recursive(v, h).heap]
    ELSE [ty |-> U, val |-> v, heap |-> h]

\* algebraic<Ts...>::algebraic (U&&), both overloads: the discriminant is
\* the index of the member the value goes into; tindex0 is history
alg_construct(Ts, U, v, h) ==
    [obj |-> [Ts |-> Ts,
              tindex |-> algebraic(Ts, alg_store(U, v, h).ty, v).alt,
              ty |-> alg_store(U, v, h).ty,
              val |-> alg_store(U, v, h).val,
              tindex0 |-> algebraic(Ts, alg_store(U, v, h).ty, v).alt],
     heap |-> alg_store(U, v, h).heap]

\* an assignment that also sets the discriminant
alg_assign_retagging(a, U, v, h) ==
    [obj |-> [a EXCEPT !.tindex = type_to_index(alg_store(U, v, h).ty, a.Ts),
                       !.ty = alg_store(U, v, h).ty,
                       !.val = alg_store(U, v, h).val],
     heap |-> alg_store(U, v, h).heap]

\* algebraic::operator= (U&&), both overloads: a U is built over whatever
\* the storage holds; tindex is const and stays
alg_assign(a, U, v, h) ==
    [obj |-> [a EXCEPT !.ty = alg_store(U, v, h).ty,
                       !.val = alg_store(U, v, h).val],
     heap |-> alg_store(U, v, h).heap]

\* a type_index that always names the first member
type_index_first(a) == 0

\* algebraic::type_index
type_index(a) == a.tindex

\* algebraic::value<U>, both overloads: the storage is read as a U, or as
\* a recursive<W> and followed, without a look at tindex; reading it as
\* what it does not hold gives an indeterminate value
alg_value(a, U, h) ==
    IF U = Pointee
    THEN IF a.ty = "recursive" THEN {h[a.val].val} ELSE Word
    ELSE IF a.ty = U THEN {a.val} ELSE Word

\* a(u): one object is built from a value of type U, and a.type_index()
\* and a.value<U>() are read
AlgConstruct(i, Ts, U, v) ==
    /\ al[i] = NoGen
    /\ Len(heap) < MaxHeap
    /\ al' = [al EXCEPT ![i] = alg_construct(Ts, U, v, heap).obj]
    /\ heap' = alg_construct(Ts, U, v, heap).heap
    /\ \E r \in alg_value(alg_construct(Ts, U, v, heap).obj, U,
                         alg_construct(Ts, U, v, heap).heap) :
          last' = [op |-> "construct", id |-> i, Ts |-> Ts, U |-> U, v |-> v,
                   index |-> type_index(alg_construct(Ts, U, v, heap).obj),
                   ret |-> r]
    /\ UNCHANGED <<bra, pg, pt, bx, ts, sq, bd, ti, bm, nb, cell>>

\* a.type_index() and a.value<U>() are read
AlgValue(i, U) ==
    /\ al[i] # NoGen
    /\ U \in AlgArgs(al[i].Ts)
    /\ \E r \in alg_value(al[i], U, heap) :
          last' = [op |-> "value", id |-> i, U |-> U, ret |-> r,
                   index |-> type_index(al[i]), obj |-> al[i]]
    /\ UNCHANGED <<bra, pg, pt, al, bx, heap, ts, sq, bd, ti, bm, nb, cell>>

\* a = u
AlgAssign(i, U, v) ==
    /\ al[i] # NoGen
    /\ U \in AlgArgs(al[i].Ts)
    /\ Len(heap) < MaxHeap
    /\ al' = [al EXCEPT ![i] = alg_assign(al[i], U, v, heap).obj]
    /\ heap' = alg_assign(al[i], U, v, heap).heap
    /\ last' = [op |-> "assign", id |-> i]
    /\ UNCHANGED <<bra, pg, pt, bx, ts, sq, bd, ti, bm, nb, cell>>

\* a.value<U>() = v, with U the type a holds
AlgWrite(i, v) ==
    /\ al[i] # NoGen
    /\ al[i].ty # "none"
    /\ IF al[i].ty = "recursive"
       THEN /\ heap' = [heap EXCEPT ![al[i].val].val = v]
            /\ al' = al
       ELSE /\ al' = [al EXCEPT ![i].val = v]
            /\ heap' = heap
    /\ last' = [op |-> "write", id |-> i]
    /\ UNCHANGED <<bra, pg, pt, bx, ts, sq, bd, ti, bm, nb, cell>>

\* algebraic (void): the static_assert (sizeof (T) == 0, ...) in its body
\* fails wherever the constructor is used
algebraic_default == IllFormed

\* algebraic<Ts...> a; the program does not build and no object exists
AlgDefault(i) ==
    /\ al[i] = NoGen
    /\ last' = [op |-> "default", id |-> i,
                built |-> algebraic_default # IllFormed]
    /\ UNCHANGED <<bra, pg, pt, al, bx, heap, ts, sq, bd, ti, bm, nb, cell>>

\* what call_dtor leaves in the storage: no object at all
destroyed(a) == [a EXCEPT !.ty = "none", !.val = 0]

\* a.call_dtor<U>(), with U the type a holds: the destructor of the held
\* value runs, and that of a recursive<W> deletes its pointee
AlgCallDtor(i) ==
    /\ al[i] # NoGen
    /\ al[i].ty # "none"
    /\ al' = [al EXCEPT ![i] = destroyed(al[i])]
    /\ heap' = IF al[i].ty = "recursive"
               THEN [heap EXCEPT ![al[i].val].frees = @ + 1]
               ELSE heap
    /\ last' = [op |-> "call_dtor", id |-> i]
    /\ UNCHANGED <<bra, pg, pt, bx, ts, sq, bd, ti, bm, nb, cell>>

\* the defaulted copy and move constructors: tindex and the bytes of the
\* storage are copied member by member, the source is left as it is
alg_copy(a) == [a EXCEPT !.tindex0 = a.tindex]

\* b (a), the copy constructor
AlgCopy(i, j) ==
    /\ al[i] # NoGen
    /\ al[j] = NoGen
    /\ al' = [al EXCEPT ![j] = alg_copy(al[i])]
    /\ last' = [op |-> "copy", id |-> j, src |-> i, before |-> al[i]]
    /\ UNCHANGED <<bra, pg, pt, bx, heap, ts, sq, bd, ti, bm, nb, cell>>

\* b (std::move (a)), the move constructor
AlgMove(i, j) ==
    /\ al[i] # NoGen
    /\ al[j] = NoGen
    /\ al' = [al EXCEPT ![j] = alg_copy(al[i])]
    /\ last' = [op |-> "move", id |-> j, src |-> i, before |-> al[i]]
    /\ UNCHANGED <<bra, pg, pt, bx, heap, ts, sq, bd, ti, bm, nb, cell>>

\* a.swap (b): the assert passes and the storages change places
AlgSwap(i, j) ==
    /\ i # j
    /\ al[i] # NoGen
    /\ al[j] # NoGen
    /\ al[i].Ts = al[j].Ts
    /\ al[i].tindex = al[j].tindex
    /\ al' = [al EXCEPT
                 ![i] = [@ EXCEPT !.ty = al[j].ty, !.val = al[j].val],
                 ![j] = [@ EXCEPT !.ty = al[i].ty, !.val = al[i].val]]
    /\ last' = [op |-> "swap", id |-> i, src |-> j, before |-> al[i]]
    /\ UNCHANGED <<bra, pg, pt, bx, heap, ts, sq, bd, ti, bm, nb, cell>>

InitAlg ==
    /\ ts = [x \in SeqInsts |-> TRUE]
    /\ sq = [i \in SeqIds |-> NoGen]
    /\ bd = NoGen
    /\ ti = NoGen
    /\ bm = NoGen
    /\ nb = NoGen
    /\ cell = 0
    /\ last = NoPull
    /\ NoPrims
    /\ al = [i \in AlgIds |-> NoGen]
    /\ bx = <<>>
    /\ heap = <<>>

NextAlg ==
    \/ \E i \in AlgIds, Ts \in AlgLists, v \in AlgVals :
          \E U \in AlgArgs(Ts) : AlgConstruct(i, Ts, U, v)
    \/ \E i \in AlgIds, U \in AlgTypes \cup {Pointee} : AlgValue(i, U)
    \/ \E i \in AlgIds, U \in AlgTypes \cup {Pointee}, v \in AlgVals :
          AlgAssign(i, U, v)
    \/ \E i \in AlgIds, v \in AlgVals : AlgWrite(i, v)
    \/ \E i, j \in AlgIds : AlgCopy(i, j)
    \/ \E i, j \in AlgIds : AlgMove(i, j)
    \/ \E i, j \in AlgIds : AlgSwap(i, j)

SpecAlg == InitAlg /\ [][NextAlg]_vars

\* the ways an object can come to exist and cease to hold a value
NextAlgLife ==
    \/ \E i \in AlgIds : AlgDefault(i)
    \/ \E i \in AlgIds, Ts \in AlgLists, v \in AlgVals :
          \E U \in AlgArgs(Ts) : AlgConstruct(i, Ts, U, v)
    \/ \E i \in AlgIds, U \in AlgTypes \cup {Pointee}, v \in AlgVals :
          AlgAssign(i, U, v)
    \/ \E i \in AlgIds : AlgCallDtor(i)

SpecAlgLife == InitAlg /\ [][NextAlgLife]_vars

(* --------------------------- recursive boxes -------------------------- *)

\* recursive<W> objects the program holds
NumBox == 3

BoxIds == 1..NumBox

\* the null pointer
Null == 0

\* what reading the pointee at p gives: its value while it is allocated,
\* anything once it has been freed
box_value(h, p) == IF h[p].frees = 0 THEN {h[p].val} ELSE Word

\* recursive (void) = default
BoxDefault(i) ==
    /\ bx[i] = NoGen
    /\ bx' = [bx EXCEPT ![i] = [state |-> "live", ptr |-> Null]]
    /\ last' = [op |-> "default", id |-> i]
    /\ UNCHANGED <<bra, pg, pt, al, heap, ts, sq, bd, ti, bm, nb, cell>>

\* recursive (W&& t) and recursive (W const& t)
BoxConstruct(i, v) ==
    /\ bx[i] = NoGen
    /\ Len(heap) < MaxHeap
    /\ bx' = [bx EXCEPT ![i] = [state |-> "live", ptr |-> recursive(v, heap).ptr]]
    /\ heap' = recursive(v, heap).heap
    /\ last' = [op |-> "construct", id |-> i]
    /\ UNCHANGED <<bra, pg, pt, al, ts, sq, bd, ti, bm, nb, cell>>

\* recursive (recursive<W> const& r): `data (alloc.allocate (1))` and a W
\* built in place from r's pointee
BoxCopy(i, j) ==
    /\ bx[i] # NoGen
    /\ bx[i].state = "live"
    /\ bx[i].ptr # Null
    /\ bx[j] = NoGen
    /\ Len(heap) < MaxHeap
    /\ \E v \in box_value(heap, bx[i].ptr) :
          /\ bx' = [bx EXCEPT ![j] = [state |-> "live",
                                      ptr |-> recursive(v, heap).ptr]]
          /\ heap' = recursive(v, heap).heap
    /\ last' = [op |-> "copy", id |-> j, src |-> i, before |-> bx[i]]
    /\ UNCHANGED <<bra, pg, pt, al, ts, sq, bd, ti, bm, nb, cell>>

\* recursive (recursive<W> && r): `data (std::move (r.ptr()))`; r.ptr()
\* is data.get(), a copy of the raw pointer, so r.data keeps it
box_move(r) == [dst |-> r, src |-> r]

\* b (std::move (a))
BoxMove(i, j) ==
    /\ i # j
    /\ bx[i] # NoGen
    /\ bx[i].state = "live"
    /\ bx[j] = NoGen
    /\ bx' = [bx EXCEPT ![j] = box_move(bx[i]).dst,
                        ![i] = box_move(bx[i]).src]
    /\ last' = [op |-> "move", id |-> j, src |-> i, before |-> bx[i]]
    /\ UNCHANGED <<bra, pg, pt, al, heap, ts, sq, bd, ti, bm, nb, cell>>

\* ~recursive, defaulted: the unique_ptr deletes what it holds
BoxDestroy(i) ==
    /\ bx[i] # NoGen
    /\ bx[i].state = "live"
    /\ bx' = [bx EXCEPT ![i].state = "dead"]
    /\ heap' = IF bx[i].ptr = Null THEN heap
               ELSE [heap EXCEPT ![bx[i].ptr].frees = @ + 1]
    /\ last' = [op |-> "destroy", id |-> i]
    /\ UNCHANGED <<bra, pg, pt, al, ts, sq, bd, ti, bm, nb, cell>>

InitBox ==
    /\ ts = [x \in SeqInsts |-> TRUE]
    /\ sq = [i \in SeqIds |-> NoGen]
    /\ bd = NoGen
    /\ ti = NoGen
    /\ bm = NoGen
    /\ nb = NoGen
    /\ cell = 0
    /\ last = NoPull
    /\ NoPrims
    /\ al = <<>>
    /\ bx = [i \in BoxIds |-> NoGen]
    /\ heap = <<>>

NextBox ==
    \/ \E i \in BoxIds : BoxDefault(i)
    \/ \E i \in BoxIds, v \in AlgVals : BoxConstruct(i, v)
    \/ \E i, j \in BoxIds : BoxCopy(i, j)
    \/ \E i, j \in BoxIds : BoxMove(i, j)
    \/ \E i \in BoxIds : BoxDestroy(i)

SpecBox == InitBox /\ [][NextBox]_vars

(* --------------------------- recursive lists -------------------------- *)

\* struct Cons { int head; List tail; } with
\* List = algebraic<Nil, recursive<Cons>>
ListTs == <<"Nil", "recursive">>

\* List (Nil {})
Nil == alg_construct(ListTs, "Nil", Unit, <<>>).obj

\* List (Cons {v, l}): the recursive constructor allocates a pointee and
\* copy-constructs the Cons into it; the copy of the member tail is the
\* defaulted copy of l
Cons(v, l, h) == alg_construct(ListTs, Pointee, [head |-> v, tail |-> l], h)

RECURSIVE list_walk(_, _)
\* the consumer: while type_index() names the Cons member, take
\* value<Cons>(), note its head and go on with its tail
list_walk(l, h) ==
    IF type_index(l) = type_to_index("recursive", ListTs)
    THEN LET c == CHOOSE x \in alg_value(l, Pointee, h) : TRUE
         IN  <<c.head>> \o list_walk(c.tail, h)
    ELSE <<>>

RECURSIVE list_end(_, _)
\* the object at which the consumer's walk stops
list_end(l, h) ==
    IF type_index(l) = type_to_index("recursive", ListTs)
    THEN list_end((CHOOSE x \in alg_value(l, Pointee, h) : TRUE).tail, h)
    ELSE l

\* l = List (Cons {v, l}): one more value in front of the chain
ListCons(v) ==
    /\ Len(heap) < MaxHeap
    /\ al' = <<Cons(v, al[1], heap).obj>>
    /\ heap' = Cons(v, al[1], heap).heap
    /\ last' = [op |-> "cons", vs |-> <<v>> \o last.vs, ret |-> <<>>,
                end |-> ""]
    /\ UNCHANGED <<bra, pg, pt, bx, ts, sq, bd, ti, bm, nb, cell>>

\* the chain is walked from its front to the Nil at its end
ListWalk ==
    /\ last.op = "cons"
    /\ last' = [op |-> "walk", vs |-> last.vs, ret |-> list_walk(al[1], heap),
                end |-> list_end(al[1], heap).ty]
    /\ UNCHANGED <<bra, pg, pt, al, bx, heap, ts, sq, bd, ti, bm, nb, cell>>

InitList ==
    /\ ts = [x \in SeqInsts |-> TRUE]
    /\ sq = [i \in SeqIds |-> NoGen]
    /\ bd = NoGen
    /\ ti = NoGen
    /\ bm = NoGen
    /\ nb = NoGen
    /\ cell = 0
    /\ last = [op |-> "cons", vs |-> <<>>, ret |-> <<>>, end |-> ""]
    /\ NoPrims
    /\ al = <<Nil>>
    /\ bx = <<>>
    /\ heap = <<>>

NextList ==
    \/ \E v \in 0..MaxVal : ListCons(v)
    \/ ListWalk

SpecList == InitList /\ [][NextList]_vars

(* --------------------------- generator copies ------------------------- *)

\* generator objects the program holds
NumGen == 2

GenIds == 1..NumGen

\* the generators the program builds and then copies
CopyG ==
    {count(0, 1), count(1, 2), prod(1, 2)}
        \cup {bound(count(0, 1), n) : n \in 0..MaxN}

\* a closure is that of bound, not of count or prod
is_bound(c) == "kind" \in DOMAIN c

\* a copy that refers to the target of the source
function_copy_shared(fn, s) == [slot |-> s, fn |-> fn]

\* std::function's copy constructor, which generator (generator const&) =
\* default runs on the member gen: the new object holds a copy of the
\* target, captured values included
function_copy(fn, s) == [slot |-> Len(fn) + 1, fn |-> Append(fn, fn[s])]

\* gen(): every outcome of running the production c once
closure_run(c) ==
    IF is_bound(c)
    THEN {[c |-> o.b, ret |-> o.ret] : o \in bound_pull(c, 0)}
    ELSE {[c |-> gen_next(c), ret |-> r] : r \in CallK("id", gen_val(c, 0))}

\* h (g), the copy constructor; g0 and k are history: the production state
\* at the moment of the copy and the pulls made since, for both objects
GenCopy(i, j) ==
    /\ pg.gen[i] # 0
    /\ pg.gen[j] = 0
    /\ pg' = [pg EXCEPT
                 !.gen[j] = function_copy(pg.fn, pg.gen[i]).slot,
                 !.fn = function_copy(pg.fn, pg.gen[i]).fn,
                 !.hist[i] = [g0 |-> pg.fn[pg.gen[i]], k |-> 0],
                 !.hist[j] = [g0 |-> pg.fn[pg.gen[i]], k |-> 0],
                 !.copied = TRUE]
    /\ last' = [op |-> "copy", id |-> j]
    /\ UNCHANGED <<bra, pt, al, bx, heap, ts, sq, bd, ti, bm, nb, cell>>

\* one pull of generator i by the program
GenPull(i) ==
    /\ pg.gen[i] # 0
    /\ pg.n < MaxPulls
    /\ \E o \in closure_run(pg.fn[pg.gen[i]]) :
          /\ pg' = [pg EXCEPT !.fn[pg.gen[i]] = o.c,
                              !.hist[i].k = @ + 1,
                              !.n = @ + 1]
          /\ last' = [op |-> "pull", id |-> i, ret |-> o.ret,
                      g0 |-> pg.hist[i].g0, k |-> pg.hist[i].k]
    /\ UNCHANGED <<bra, pt, al, bx, heap, ts, sq, bd, ti, bm, nb, cell>>

InitCopy ==
    /\ ts = [x \in SeqInsts |-> TRUE]
    /\ sq = [i \in SeqIds |-> NoGen]
    /\ bd = NoGen
    /\ ti = NoGen
    /\ bm = NoGen
    /\ nb = NoGen
    /\ cell = 0
    /\ last = NoPull
    /\ bra = NoGen
    /\ \E g \in CopyG :
          pg = [gen |-> [i \in GenIds |-> IF i = 1 THEN 1 ELSE 0],
                fn |-> <<g>>,
                hist |-> [i \in GenIds |-> [g0 |-> g, k |-> 0]],
                copied |-> FALSE,
                n |-> 0]
    /\ pt = <<>>
    /\ NoObjects

NextCopy ==
    \/ \E i, j \in GenIds : GenCopy(i, j)
    \/ \E i \in GenIds : GenPull(i)

SpecCopy == InitCopy /\ [][NextCopy]_vars

(* ------------------------- failing productions ------------------------ *)

\* the failures a production can raise
Failures == {"e1", "e2"}

\* a generator built by the caller whose production returns cur and counts
\* it down while it is positive, and raises e once it is 0
raising(j, e) == [k |-> "raise", ty |-> "int", cur |-> j, step |-> -1, e |-> e]

\* gen() raises
raises(g) == g.k = "raise" /\ g.cur = 0

\* gen() returns: the closure afterwards
returns_next(g) ==
    IF g.k = "raise" THEN [g EXCEPT !.cur = @ - 1] ELSE gen_next(g)

\* noexcept (noexcept (gen ()) && noexcept (k (gen ()))): calling a
\* std::function may throw, so operator() (K&&) is not noexcept
noexcept_call_k == FALSE

\* noexcept (noexcept (std::move (std::declval<T> ()))): std::move never
\* throws, so operator() (void) is declared noexcept
noexcept_call_void == TRUE

\* what a call gives its caller when the callee's body raised e: the
\* exception, or std::terminate if the callee is declared noexcept
escaped(is_noexcept, e) ==
    [o |-> IF is_noexcept THEN "terminate" ELSE "raise", e |-> e]

Returned == [o |-> "value", e |-> ""]

\* g (k) as seen by the caller: outcome, g afterwards, whether gen() raised
pull_k(g) ==
    IF raises(g)
    THEN [out |-> escaped(noexcept_call_k, g.e), g |-> g, raised |-> TRUE]
    ELSE [out |-> Returned, g |-> returns_next(g), raised |-> FALSE]

\* g () as seen by the caller
pull_void(g) ==
    IF raises(g)
    THEN [out |-> escaped(noexcept_call_void, g.e), g |-> g, raised |-> TRUE]
    ELSE [out |-> Returned, g |-> returns_next(g), raised |-> FALSE]

\* g1 () and g2 () one after the other, the second only if the first
\* came back: outcomes as for pull_void, gs the two generators afterwards
pull_both(gs, first) ==
    LET second == IF first = 1 THEN 2 ELSE 1
        a == pull_void(gs[first])
        b == pull_void(gs[second])
    IN  IF a.out.o # "value"
        THEN [out |-> a.out, gs |-> [gs EXCEPT ![first] = a.g],
              raised |-> TRUE]
        ELSE [out |-> b.out,
              gs |-> [gs EXCEPT ![first] = a.g, ![second] = b.g],
              raised |-> b.raised]

\* the combinators a failing generator is pulled through
Combs == {"tie", "seq", "braid", "bind", "bound"}

\* a combinator generator over gs; bind and bound take gs[1] only; n is
\* bound's count, ts seq's latch; k and over are history
failing(comb, gs, n) ==
    [comb |-> comb, gs |-> gs, n |-> n, ts |-> TRUE, k |-> 0, over |-> FALSE]

\* the productions of the combinators, every outcome of one run:
\*   bind:   return g (f)
\*   bound:  return n ? (--n, A (g ())) : A (bot_t {})
\*   tie:    return std::make_tuple (g (), gs ()...)
\*   braid:  return branch (t (), u ())
\*   seq:    if (ts) { val = t (); if (not branch (val)) return val;
\*                     else ts = false; } return u ()
fail_run(c) ==
    IF c.comb = "bind"
    THEN {[c |-> [c EXCEPT !.gs[1] = pull_k(c.gs[1]).g],
           out |-> pull_k(c.gs[1]).out,
           raised |-> pull_k(c.gs[1]).raised]}
    ELSE IF c.comb = "bound"
    THEN IF bound_active(c.n)
         THEN {[c |-> [c EXCEPT !.n = @ - 1,
                                !.gs[1] = pull_void(c.gs[1]).g],
                out |-> pull_void(c.gs[1]).out,
                raised |-> pull_void(c.gs[1]).raised]}
         ELSE {[c |-> c, out |-> Returned, raised |-> FALSE]}
    ELSE IF c.comb \in {"tie", "braid"}
    THEN {[c |-> [c EXCEPT !.gs = pull_both(c.gs, first).gs],
           out |-> pull_both(c.gs, first).out,
           raised |-> pull_both(c.gs, first).raised] : first \in 1..2}
    ELSE IF ~c.ts
    THEN {[c |-> [c EXCEPT !.gs[2] = pull_void(c.gs[2]).g],
           out |-> pull_void(c.gs[2]).out,
           raised |-> pull_void(c.gs[2]).raised]}
    ELSE IF pull_void(c.gs[1]).raised
    THEN {[c |-> c, out |-> pull_void(c.gs[1]).out, raised |-> TRUE]}
    ELSE {[c |-> [c EXCEPT !.gs[1] = pull_void(c.gs[1]).g],
           out |-> Returned, raised |-> FALSE],
          [c |-> [c EXCEPT !.gs = pull_both(c.gs, 1).gs, !.ts = FALSE],
           out |-> pull_both(c.gs, 1).out,
           raised |-> pull_both(c.gs, 1).raised]}

\* m (k), a pull of the combinator generator by the program: what left
\* the production leaves operator() (K&&) as well
fail_pull(c) ==
    {[c |-> [r.c EXCEPT !.k = @ + 1, !.over = (r.out.o = "terminate")],
      out |-> IF r.out.o = "raise"
              THEN escaped(noexcept_call_k, r.out.e) ELSE r.out,
      raised |-> r.raised, e |-> r.out.e] : r \in fail_run(c)}

\* the generators handed to the combinators
FailG == {count(0, 1)} \cup {raising(j, e) : j \in 0..1, e \in Failures}

\* one pull of the combinator generator; after std::terminate there is
\* no program left to pull
FailPull ==
    /\ ~pg.over
    /\ pg.k < MaxPulls
    /\ \E r \in fail_pull(pg) :
          /\ pg' = r.c
          /\ last' = [op |-> "fail", comb |-> pg.comb, out |-> r.out,
                      raised |-> r.raised, e |-> r.e,
                      rem |-> pg.n, rem2 |-> r.c.n]
    /\ UNCHANGED <<bra, pt, al, bx, heap, ts, sq, bd, ti, bm, nb, cell>>

InitFail ==
    /\ ts = [x \in SeqInsts |-> TRUE]
    /\ sq = [i \in SeqIds |-> NoGen]
    /\ bd = NoGen
    /\ ti = NoGen
    /\ bm = NoGen
    /\ nb = NoGen
    /\ cell = 0
    /\ last = NoPull
    /\ bra = NoGen
    /\ pg \in {failing(comb, gs, 0) :
                  comb \in Combs \ {"bound"}, gs \in [1..2 -> FailG]}
              \cup {failing("bound", <<g, g>>, n) : g \in FailG, n \in 0..MaxN}
    /\ pt = <<>>
    /\ NoObjects

NextFail == FailPull

SpecFail == InitFail /\ [][NextFail]_vars

(* --------------------------- concurrent pulls ------------------------- *)

\* threads that pull
NumThreads == 2

Threads == 1..NumThreads

\* pulls one thread makes
ThreadPulls == 2

\* two generators shared by the threads: c = count(0, 1) and
\* s = seq(pure(MaxVal), pure(-1), x => x >= 2).  start is c's captured
\* counter, latch is s's `static bool ts`; mutex is the caller's lock (0:
\* free), used when the program serializes its pulls (locked); pc, result,
\* tmp and done are per thread; rets and late are history: what the pulls
\* of c returned, in the order they returned, and whether t was pulled
\* with the latch already tripped
threads(locked) ==
    [locked |-> locked, mutex |-> 0, start |-> 0, latch |-> TRUE,
     pc |-> [th \in Threads |-> "idle"],
     result |-> [th \in Threads |-> 0],
     tmp |-> [th \in Threads |-> 0],
     done |-> [th \in Threads |-> 0],
     rets |-> <<>>, late |-> FALSE]

\* a lock that lets everybody in
acquire_nothing(m, th) == [ok |-> TRUE, mutex |-> m]

\* the caller's lock is taken before a pull
acquire(m, th) == [ok |-> m = 0, mutex |-> th]

\* a thread begins a pull of c or of s, taking the lock first if the
\* program serializes
ThreadBegin(th, gen) ==
    /\ pg.pc[th] = "idle"
    /\ pg.done[th] < ThreadPulls
    /\ (pg.locked => acquire(pg.mutex, th).ok)
    /\ pg' = [pg EXCEPT
                 !.pc[th] = IF gen = "count" THEN "result" ELSE "test",
                 !.mutex = IF pg.locked THEN acquire(pg.mutex, th).mutex
                           ELSE @]
    /\ UNCHANGED <<bra, pt, al, bx, heap, ts, sq, bd, ti, bm, nb, cell, last>>

\* count: `auto result = start;`
CountResult(th) ==
    /\ pg.pc[th] = "result"
    /\ pg' = [pg EXCEPT !.result[th] = pg.start, !.pc[th] = "load"]
    /\ UNCHANGED <<bra, pt, al, bx, heap, ts, sq, bd, ti, bm, nb, cell, last>>

\* count: `start += step;`, the read
CountLoad(th) ==
    /\ pg.pc[th] = "load"
    /\ pg' = [pg EXCEPT !.tmp[th] = pg.start, !.pc[th] = "store"]
    /\ UNCHANGED <<bra, pt, al, bx, heap, ts, sq, bd, ti, bm, nb, cell, last>>

\* count: `start += step;`, the write
CountStore(th) ==
    /\ pg.pc[th] = "store"
    /\ pg' = [pg EXCEPT !.start = pg.tmp[th] + 1, !.pc[th] = "return"]
    /\ UNCHANGED <<bra, pt, al, bx, heap, ts, sq, bd, ti, bm, nb, cell, last>>

\* count: `return result;` and the pull is over
CountReturn(th) ==
    /\ pg.pc[th] = "return"
    /\ pg' = [pg EXCEPT !.rets = Append(@, pg.result[th]),
                        !.pc[th] = "idle",
                        !.done[th] = @ + 1,
                        !.mutex = IF pg.locked THEN 0 ELSE @]
    /\ last' = [op |-> "thread", th |-> th, gen |-> "count",
                ret |-> pg.result[th]]
    /\ UNCHANGED <<bra, pt, al, bx, heap, ts, sq, bd, ti, bm, nb, cell>>

\* seq: `if (ts)`
SeqTest(th) ==
    /\ pg.pc[th] = "test"
    /\ pg' = [pg EXCEPT !.pc[th] = IF pg.latch THEN "t" ELSE "u"]
    /\ UNCHANGED <<bra, pt, al, bx, heap, ts, sq, bd, ti, bm, nb, cell, last>>

\* seq: `auto const val = t (); if (not branch (val)) return val;`
SeqPullT(th) ==
    /\ pg.pc[th] = "t"
    /\ \E val \in CallVoid(MaxVal) :
          IF branch(val, 2)
          THEN /\ pg' = [pg EXCEPT !.pc[th] = "trip",
                                   !.late = @ \/ ~pg.latch]
               /\ last' = last
          ELSE /\ pg' = [pg EXCEPT !.pc[th] = "idle",
                                   !.done[th] = @ + 1,
                                   !.late = @ \/ ~pg.latch,
                                   !.mutex = IF pg.locked THEN 0 ELSE @]
               /\ last' = [op |-> "thread", th |-> th, gen |-> "seq",
                           ret |-> val]
    /\ UNCHANGED <<bra, pt, al, bx, heap, ts, sq, bd, ti, bm, nb, cell>>

\* seq: `else ts = false;`
SeqTrip(th) ==
    /\ pg.pc[th] = "trip"
    /\ pg' = [pg EXCEPT !.latch = FALSE, !.pc[th] = "u"]
    /\ UNCHANGED <<bra, pt, al, bx, heap, ts, sq, bd, ti, bm, nb, cell, last>>

\* seq: `return u ();` and the pull is over
SeqPullU(th) ==
    /\ pg.pc[th] = "u"
    /\ pg' = [pg EXCEPT !.pc[th] = "idle",
                        !.done[th] = @ + 1,
                        !.mutex = IF pg.locked THEN 0 ELSE @]
    /\ \E val \in CallVoid(-1) :
          last' = [op |-> "thread", th |-> th, gen |-> "seq", ret |-> val]
    /\ UNCHANGED <<bra, pt, al, bx, heap, ts, sq, bd, ti, bm, nb, cell>>

InitThreads ==
    /\ ts = [x \in SeqInsts |-> TRUE]
    /\ sq = [i \in SeqIds |-> NoGen]
    /\ bd = NoGen
    /\ ti = NoGen
    /\ bm = NoGen
    /\ nb = NoGen
    /\ cell = 0
    /\ last = NoPull
    /\ bra = NoGen
    /\ pg \in {threads(locked) : locked \in BOOLEAN}
    /\ pt = <<>>
    /\ NoObjects

NextThreads ==
    \/ \E th \in Threads, gen \in {"count", "seq"} : ThreadBegin(th, gen)
    \/ \E th \in Threads : CountResult(th)
    \/ \E th \in Threads : CountLoad(th)
    \/ \E th \in Threads : CountStore(th)
    \/ \E th \in Threads : CountReturn(th)
    \/ \E th \in Threads : SeqTest(th)
    \/ \E th \in Threads : SeqPullT(th)
    \/ \E th \in Threads : SeqTrip(th)
    \/ \E th \in Threads : SeqPullU(th)

SpecThreads == InitThreads /\ [][NextThreads]_vars

(* ------------------------ the caller's generators --------------------- *)

\* the generators the caller builds and hands to a combinator
FrameG == {count(0, 1), count(1, 2), pure(1, "int"), shared}

\* a capture `[&g]`: the closure refers to the caller's generator
capture_by_reference(fn, s) == [slot |-> s, fn |-> fn]

\* the capture `[g]` in the closures of tie, seq, braid, bind and bound:
\* the closure holds a copy of the generator
capture(fn, s) == function_copy(fn, s)

\* the caller holds g (slot 1 of fn) and no combinator generator yet; at,
\* own and k are history
framed(g) ==
    [fn |-> <<g>>, cap |-> 0, comb |-> "none", n |-> 0, latch |-> TRUE,
     at |-> [g |-> g, cell |-> 0], own |-> 0, k |-> 0]

\* the combined generator's production pulls its captured g: tie, braid
\* and bind always, bound while its count is not 0, seq while its latch
\* stands
frame_pulls_g(c) ==
    IF c.comb = "bound" THEN bound_active(c.n)
    ELSE IF c.comb = "seq" THEN c.latch
    ELSE TRUE

\* m = tie (g, ...), seq (g, ...), braid (g, ...), bind (f, g) or
\* bound (g, n): the closure is made and stored, no production runs
FrameBuild(comb, n) ==
    /\ pg.cap = 0
    /\ pg' = [pg EXCEPT !.fn = capture(pg.fn, 1).fn,
                        !.cap = capture(pg.fn, 1).slot,
                        !.comb = comb,
                        !.n = n,
                        !.at = [g |-> pg.fn[1], cell |-> cell],
                        !.own = 0]
    /\ last' = [op |-> "build", ret |-> 0, j |-> 0]
    /\ UNCHANGED <<bra, pt, al, bx, heap, ts, sq, bd, ti, bm, nb, cell>>

\* one pull of the combined generator m
FramePull ==
    /\ pg.cap # 0
    /\ pg.k < MaxPulls
    /\ IF frame_pulls_g(pg)
       THEN /\ \E trip \in BOOLEAN :
                  pg' = [pg EXCEPT
                            !.fn[pg.cap] = gen_next(pg.fn[pg.cap]),
                            !.n = IF pg.comb = "bound" THEN @ - 1 ELSE @,
                            !.latch = IF pg.comb = "seq" /\ trip
                                      THEN FALSE ELSE @,
                            !.k = @ + 1]
            /\ cell' = gen_cell(pg.fn[pg.cap], cell)
       ELSE /\ pg' = [pg EXCEPT !.k = @ + 1]
            /\ cell' = cell
    /\ last' = [op |-> "combined", ret |-> 0, j |-> 0]
    /\ UNCHANGED <<bra, pt, al, bx, heap, ts, sq, bd, ti, bm, nb>>

\* one pull of g by the caller
FrameOwnPull ==
    /\ pg.k < MaxPulls
    /\ \E r \in CallK("id", gen_val(pg.fn[1], cell)) :
          last' = [op |-> "own", ret |-> r, j |-> pg.own]
    /\ pg' = [pg EXCEPT !.fn[1] = gen_next(pg.fn[1]),
                        !.own = @ + 1,
                        !.k = @ + 1]
    /\ cell' = gen_cell(pg.fn[1], cell)
    /\ UNCHANGED <<bra, pt, al, bx, heap, ts, sq, bd, ti, bm, nb>>

InitFrame ==
    /\ ts = [x \in SeqInsts |-> TRUE]
    /\ sq = [i \in SeqIds |-> NoGen]
    /\ bd = NoGen
    /\ ti = NoGen
    /\ bm = NoGen
    /\ nb = NoGen
    /\ cell = 0
    /\ last = NoPull
    /\ bra = NoGen
    /\ pg \in {framed(g) : g \in FrameG}
    /\ pt = <<>>
    /\ NoObjects

NextFrame ==
    \/ \E comb \in Combs \ {"bound"} : FrameBuild(comb, 0)
    \/ \E n \in 0..MaxN : FrameBuild("bound", n)
    \/ FramePull
    \/ FrameOwnPull

SpecFrame == InitFrame /\ [][NextFrame]_vars

(* ----------------------- a consumer of bound (g, n) ------------------- *)

\* the caller's loop `while (b (is_value)) ...;`: it stands before a pull
\* and has pulled nothing yet; vals counts the results that held a T
consumer == [pc |-> "pull", pulls |-> 0, vals |-> 0]

\* the continuation the consumer passes to operator() (K&&): whether the
\* result holds bot_t, by its type_index
is_bottom(r) == r.alt = type_to_index("bot_t", <<"int", "bot_t">>)

\* one turn of the loop: a pull of the bound generator through
\* operator() (K&&), and the loop ends when the result is Bottom
ConsumePull ==
    /\ pg.pc = "pull"
    /\ bd.k < MaxPulls
    /\ \E o \in bound_pull(bd, cell) :
          /\ bd' = o.b
          /\ cell' = o.cell
          /\ pg' = [pc |-> IF is_bottom(o.ret) THEN "done" ELSE "pull",
                    pulls |-> pg.pulls + 1,
                    vals |-> IF is_bottom(o.ret) THEN pg.vals
                             ELSE pg.vals + 1]
          /\ last' = [op |-> "consume", ret |-> o.ret, gp |-> o.gp]
    /\ UNCHANGED <<bra, pt, al, bx, heap, ts, sq, ti, bm, nb>>

InitConsume ==
    /\ ts = [x \in SeqInsts |-> TRUE]
    /\ sq = [i \in SeqIds |-> NoGen]
    /\ bd \in {bound(g, n) : g \in BoundG, n \in 0..MaxN}
    /\ ti = NoGen
    /\ bm = NoGen
    /\ nb = NoGen
    /\ cell = 0
    /\ last = NoPull
    /\ bra = NoGen
    /\ pg = consumer
    /\ pt = <<>>
    /\ NoObjects

NextConsume ==
    \/ ConsumePull
    \/ CellStep

\* the consumer is a sequential loop of a running program: while its next
\* pull is possible it is eventually made
SpecConsume ==
    InitConsume /\ [][NextConsume]_vars /\ WF_vars(ConsumePull)

(* ================================ claims ============================== *)

\* the k-th value of a count generator g0 (k = 1, 2, ...)
KthOf(g0, k) == g0.cur + (k - 1) * g0.step

\* C1: once a pull of s = seq(t, u, branch) has evaluated branch to true,
\* every later pull of s leaves t alone and returns the value u just
\* produced, as the U-alternative.
C1_SwitchedIsAbsorbing ==
    (last.op = "seq" /\ last.was) =>
        /\ last.tp = 0
        /\ last.up = 1
        /\ last.ret = [alt |-> 1, val |-> last.uv]

\* what seq(count(0,1), pure(-1), x => x >= 2) is said to yield
SeqExample == <<0, 1, -1, -1, -1>>

\* C2: the pull of s at which branch first comes out true pulls t once and
\* u once and returns the value u produced, not the one t produced; the
\* k-th pull of seq(count(0,1), pure(-1), x => x >= 2) yields the k-th of
\* 0, 1, -1, -1, -1.
C2_TrippingPull ==
    /\ (last.op = "seq" /\ last.br = "true") =>
          /\ last.tp = 1
          /\ last.up = 1
          /\ last.ret = [alt |-> 1, val |-> last.uv]
    /\ (last.op = "seq" /\ last.fresh /\ last.gen.thr = 2
            /\ last.gen.u.k = "pure" /\ last.gen.u.ty = "int") =>
          last.ret.val = SeqExample[last.k]

\* C3: the first pull of any seq generator, a copy included, pulls t and
\* evaluates branch on it, whatever pulls other seq generators have had.
C3_OwnLatch ==
    (last.op = "seq" /\ last.k = 1) =>
        /\ last.tp = 1
        /\ last.br # "none"

\* C4: while no pull of s has evaluated branch to true, a pull of s pulls
\* t once, and when branch is false on the value it leaves u alone and
\* returns exactly that value as alternative 0.
C4_Watching ==
    (last.op = "seq" /\ ~last.was) =>
        /\ last.tp = 1
        /\ (last.br = "false" =>
               /\ last.up = 0
               /\ last.ret = [alt |-> 0, val |-> last.tv])

\* C5: for k <= n the k-th pull of bound(g, n) pulls g once, returns the
\* T-alternative holding the value g just produced (the k-th value of g)
\* and lowers the remaining count by one.
C5_BoundDelivers ==
    (last.op = "bound" /\ last.k <= last.n0) =>
        /\ last.gp = 1
        /\ last.ret = [alt |-> 0, val |-> last.gv]
        /\ (last.g0.k = "count" => last.gv = KthOf(last.g0, last.k))
        /\ last.rem2 = last.rem - 1

C7_TieTuple ==
    last.op = "tie" =>
        \A i \in 1..Len(last.gs) :
            /\ last.pc[i] = 1
            /\ last.ret[i] = last.pv[i]

\* C8: within a pull of tie(g1..gn) the productions run in declared
\* order, g1 first.
C8_TieOrder ==
    last.op = "tie" => \A i \in 1..Len(last.gs) : last.order[i] = i

\* what bind(x => x*x, count(0,1)) is said to yield
BindExample == <<0, 1, 4>>

C10_BindNaryIsBindOfTie ==
    nb # NoGen => nb.obj = bind_resolve(nb.f, tie(nb.gs))

C12_BraidMerges ==
    last.op = "braid" =>
        /\ last.pc[1] = 1
        /\ last.pc[2] = 1
        /\ last.ret = merge(last.gen.branch, last.gen,
                            last.pv[1], last.pv[2])

RECURSIVE Pow(_, _)
\* b to the power n
Pow(b, n) == IF n = 0 THEN 1 ELSE b * Pow(b, n - 1)

\* what count(0,1) pulled 5 times is said to yield
CountExample == <<0, 1, 2, 3, 4>>

ProdExample == <<1, 2, 4, 8, 16>>

C15_PureOwnTuple ==
    last.op = "pure" => last.ret = last.gen.vals

\* the zero-based position of the member type U in the list Ts
IndexOf(U, Ts) == (CHOOSE n \in 1..Len(Ts) : Ts[n] = U) - 1

\* the type a.value<U>() is asked for to reach what a holds
HeldAs(a) == IF a.ty = "recursive" THEN Pointee ELSE a.ty

C17_IndexNamesHeld ==
    \A i \in DOMAIN al :
        al[i] # NoGen => al[i].ty = al[i].Ts[type_index(al[i]) + 1]

\* C18: the discriminant of an object is fixed for its lifetime:
\* type_index() returns the index assigned at construction after any
\* sequence of typed access, value assignment, being copied from, being
\* moved from and swap.
C18_IndexFixed ==
    \A i \in DOMAIN al :
        al[i] # NoGen => type_index(al[i]) = al[i].tindex0

\* an object that was assigned a value of another member type
C18_Witness ==
    /\ last.op = "assign"
    /\ al[last.id].ty # al[last.id].Ts[al[last.id].tindex0 + 1]
    /\ type_index(al[last.id]) = al[last.id].tindex0

\* C19: copy-constructing an object yields one with the same discriminant
\* and an equal value in fresh storage and leaves the source unchanged;
\* when the held member is a recursive<W> the copy owns a pointee of its
\* own.
C19_CopyIsDeep ==
    last.op = "copy" =>
        /\ type_index(al[last.id]) = type_index(al[last.src])
        /\ alg_value(al[last.id], HeldAs(al[last.id]), heap)
             = alg_value(al[last.src], HeldAs(al[last.src]), heap)
        /\ al[last.src] = last.before
        /\ (al[last.src].ty = "recursive" =>
               al[last.id].val # al[last.src].val)

\* the boxes that hold pointee p and have not been destroyed
Owners(p) ==
    {i \in DOMAIN bx :
        bx[i] # NoGen /\ bx[i].state = "live" /\ bx[i].ptr = p}

\* C20: each heap pointee is owned by exactly one recursive<W> at any
\* time: after move construction the destination owns the pointee and the
\* source no longer does, and over any sequence of construct, copy, move
\* and destroy every pointee is freed exactly once, never twice and never
\* while another box still holds it.
C20_SingleOwner ==
    /\ \A p \in DOMAIN heap :
          /\ Cardinality(Owners(p)) <= 1
          /\ heap[p].frees <= 1
          /\ (heap[p].frees = 0 <=> Cardinality(Owners(p)) = 1)
    /\ last.op = "move" =>
          /\ bx[last.id].ptr = last.before.ptr
          /\ bx[last.src].ptr = Null

C22_NeverEmpty ==
    /\ last.op = "default" => ~last.built
    /\ \A i \in DOMAIN al :
          al[i] # NoGen =>
              /\ type_index(al[i]) \in 0..(Len(al[i].Ts) - 1)
              /\ al[i].ty # "none"
              /\ al[i].Ts[type_index(al[i]) + 1] = al[i].ty

RECURSIVE after(_, _)
\* the production state k pulls after c
after(c, k) ==
    IF k = 0 THEN c
    ELSE after(IF is_bound(c)
               THEN [c EXCEPT !.n = IF @ = 0 THEN 0 ELSE @ - 1,
                              !.g = IF c.n = 0 THEN @ ELSE
                                       [@ EXCEPT !.cur = @ + c.g.step],
                              !.k = @ + 1,
                              !.gpulls = IF c.n = 0 THEN @ ELSE @ + 1]
               ELSE IF c.k = "count" THEN [c EXCEPT !.cur = @ + c.step]
               ELSE [c EXCEPT !.cur = @ * c.step],
               k - 1)

C24_FailureReachesCaller ==
    (last.op = "fail" /\ last.raised) =>
        last.out = [o |-> "raise", e |-> last.e]

\* C25: pulls are not atomic and the library does no locking: when the
\* pulls of the threads are serialized by the caller no update is lost,
\* the i-th pull of count(0,1) to return returns i - 1 and seq pulls t
\* only while its latch stands; without serialization states are
\* reachable in which two pulls of the count generator return the same
\* value and in which seq pulls t after its latch has tripped.
C25_SerializedIsSafe ==
    pg.locked =>
        /\ \A i \in 1..Len(pg.rets) : pg.rets[i] = i - 1
        /\ ~pg.late

\* pulls that were not serialized: two pulls of the count generator have
\* returned the same value, and seq has pulled t with its latch tripped
C25_Witness ==
    /\ ~pg.locked
    /\ pg.late
    /\ \E i, j \in 1..Len(pg.rets) : i # j /\ pg.rets[i] = pg.rets[j]

\* the value of the j-th later pull (j = 0, 1, ...) of a generator that
\* stands at g, with the cell at c, when nothing else is pulled meanwhile
Expected(g, c, j) ==
    IF g.k = "cell" THEN c + j ELSE g.cur + j * g.step

\* C26 as stated: building and pulling a combinator generator leaves the
\* caller's input generator untouched: nothing is pulled at construction,
\* and after any number of pulls on the combined generator the caller's g
\* still produces its sequence from where it stood when the combinator
\* was built.
C26_InputsUntouched ==
    /\ last.op = "build" => (pg.fn[1] = pg.at.g /\ cell = pg.at.cell)
    /\ last.op = "own" =>
          last.ret = Expected(pg.at.g, pg.at.cell, last.j)

\* C26, amended: the same for every g whose production does not share a
\* mutable cell with other productions.
C26_UnsharedInputsUntouched ==
    /\ last.op = "build" => (pg.fn[1] = pg.at.g /\ cell = pg.at.cell)
    /\ (last.op = "own" /\ pg.at.g.k # "cell") =>
          last.ret = Expected(pg.at.g, pg.at.cell, last.j)

\* the caller pulls its count generator after the combined generator
\* built on it has been pulled, and gets the value it stood at
C26_Witness ==
    /\ last.op = "own"
    /\ pg.at.g = count(1, 2)
    /\ pg.cap # 0
    /\ pg.fn[pg.cap].cur > pg.at.g.cur
    /\ last.j = 0
    /\ last.ret = 1

\* C27: in bound (g, n) the remaining count is decremented before g is
\* pulled: when g's production fails during a pull made with remaining > 0,
\* the failure reaches the caller and the remaining count is one lower.
C27_FailedPullUsesSlot ==
    (last.op = "fail" /\ last.comb = "bound" /\ last.raised /\ last.rem > 0)
        => /\ last.out.o = "raise"
           /\ last.rem2 = last.rem - 1

====
